---------------------------- MODULE Spec2Model ----------------------------
(***************************************************************************)
(* A model of sqlitetools.py: the varint codec, the column decoder, the    *)
(* record parser and the backward varint scanner.                          *)
(*                                                                         *)
(* The module targets Python 2 (ord() over the elements of a str buffer,   *)
(* ''.join over a slice, and `/` on two ints is floor division).           *)
(*                                                                         *)
(* Conventions                                                             *)
(*   - a buffer is a sequence of bytes 0..255; offsets are 0-based as in   *)
(*     the source, so buf[i] of the source is buf[i + 1] here;             *)
(*   - Python's unbounded non-negative ints are little-endian sequences    *)
(*     of base-256 limbs without a trailing zero limb (<<>> is 0); a       *)
(*     signed int is [neg, mag];                                           *)
(*   - a call either returns [kind |-> "ok", ...] or raises, which is      *)
(*     [kind |-> <exception class>, msg |-> <the source's message>];       *)
(*   - None is the empty sequence and a present optional value x is <<x>>. *)
(***************************************************************************)
EXTENDS Integers, Sequences, FiniteSets, TLC

VARIABLES call, result, pc

vars == <<call, result, pc>>

-----------------------------------------------------------------------------
(* Python values *)

None == <<>>

Some(x) == <<x>>

IsNone(o) == o = <<>>

Get(o) == o[1]

Raise(kind, msg) == [kind |-> kind, msg |-> msg]

SqliteParseError(msg) == Raise("SqliteParseError", msg)

IsOk(r) == r.kind = "ok"

-----------------------------------------------------------------------------
(* Unbounded non-negative integers: little-endian base-256 limbs *)

Limb(d, k) == IF k <= Len(d) THEN d[k] ELSE 0

\* drop the zero limbs at the top
Norm(d) ==
    LET n == CHOOSE k \in 0..Len(d) :
                 /\ k = 0 \/ d[k] # 0
                 /\ \A j \in (k + 1)..Len(d) : d[j] = 0
    IN  SubSeq(d, 1, n)

RECURSIVE FromInt(_)
FromInt(n) == IF n = 0 THEN <<>> ELSE <<n % 256>> \o FromInt(n \div 256)

\* exact for magnitudes below 2^24, which is every magnitude the drawn
\* inputs make the record parser and the claims convert
RECURSIVE ToInt(_)
ToInt(d) == IF d = <<>> THEN 0 ELSE d[1] + 256 * ToInt(Tail(d))

\* cols[k] is the (possibly >= 256) weight of 256^(k-1); propagate the carries
\* through cols[lo..hi], entered with carry c
RECURSIVE CarryRange(_, _, _, _)
CarryRange(cols, lo, hi, c) ==
    IF lo > hi THEN [limbs |-> <<>>, carry |-> c]
    ELSE IF lo = hi
         THEN [limbs |-> <<(cols[lo] + c) % 256>>, carry |-> (cols[lo] + c) \div 256]
    ELSE LET mid == (lo + hi) \div 2
             l == CarryRange(cols, lo, mid, c)
             r == CarryRange(cols, mid + 1, hi, l.carry)
         IN  [limbs |-> l.limbs \o r.limbs, carry |-> r.carry]

Carry(cols) ==
    LET r == CarryRange(cols, 1, Len(cols), 0)
    IN  r.limbs \o FromInt(r.carry)

AddB(a, b) ==
    LET n == IF Len(a) > Len(b) THEN Len(a) ELSE Len(b)
    IN  Norm(Carry([k \in 1..n |-> Limb(a, k) + Limb(b, k)]))

RECURSIVE ColSum(_, _, _, _, _)
ColSum(a, b, k, lo, hi) ==
    IF lo > hi THEN 0
    ELSE IF lo = hi THEN a[lo] * b[k + 1 - lo]
    ELSE LET mid == (lo + hi) \div 2
         IN  ColSum(a, b, k, lo, mid) + ColSum(a, b, k, mid + 1, hi)

MulB(a, b) ==
    IF a = <<>> \/ b = <<>> THEN <<>>
    ELSE LET lo(k) == IF k + 1 - Len(b) > 1 THEN k + 1 - Len(b) ELSE 1
             hi(k) == IF k < Len(a) THEN k ELSE Len(a)
         IN  Norm(Carry([k \in 1..(Len(a) + Len(b) - 1) |->
                            ColSum(a, b, k, lo(k), hi(k))]))

\* b ** e by squaring
RECURSIVE PowB(_, _)
PowB(b, e) ==
    IF e = 0 THEN <<1>>
    ELSE IF e % 2 = 0
         THEN LET h == PowB(b, e \div 2) IN MulB(h, h)
         ELSE MulB(b, PowB(b, e - 1))

\* u - 1, for u > 0: borrow through the zero limbs at the bottom
Dec(u) ==
    LET z == CHOOSE k \in 1..Len(u) : u[k] # 0 /\ \A j \in 1..(k - 1) : u[j] = 0
    IN  Norm([k \in 1..Len(u) |->
                 IF k < z THEN 255 ELSE IF k = z THEN u[k] - 1 ELSE u[k]])

BitLenByte(b) == IF b >= 128 THEN 8 ELSE IF b >= 64 THEN 7 ELSE IF b >= 32 THEN 6
                 ELSE IF b >= 16 THEN 5 ELSE IF b >= 8 THEN 4 ELSE IF b >= 4 THEN 3
                 ELSE IF b >= 2 THEN 2 ELSE b

\* int.bit_length()
BitLen(u) == IF u = <<>> THEN 0 ELSE 8 * (Len(u) - 1) + BitLenByte(u[Len(u)])

\* (~x) & ((1 << n_bits) - 1), for n_bits a multiple of 8
NotMask(x, n_bits) == Norm([k \in 1..(n_bits \div 8) |-> 255 - Limb(x, k)])

\* int(''.join(map(str, bits)), 2): bits is most significant bit first
BitAt(bits, p) == IF p < Len(bits) THEN bits[Len(bits) - p] ELSE 0

BitsToInt(bits) ==
    Norm([k \in 1..((Len(bits) + 7) \div 8) |->
            BitAt(bits, 8 * (k - 1)) + 2 * BitAt(bits, 8 * (k - 1) + 1)
              + 4 * BitAt(bits, 8 * (k - 1) + 2) + 8 * BitAt(bits, 8 * (k - 1) + 3)
              + 16 * BitAt(bits, 8 * (k - 1) + 4) + 32 * BitAt(bits, 8 * (k - 1) + 5)
              + 64 * BitAt(bits, 8 * (k - 1) + 6) + 128 * BitAt(bits, 8 * (k - 1) + 7)])

Signed(neg, mag) == [neg |-> neg /\ mag # <<>>, mag |-> mag]

ToIntS(s) == IF s.neg THEN 0 - ToInt(s.mag) ELSE ToInt(s.mag)

FromIntS(n) == IF n < 0 THEN Signed(TRUE, FromInt(0 - n)) ELSE Signed(FALSE, FromInt(n))

-----------------------------------------------------------------------------
(* twos_comp, parse_varint *)

twos_comp(uint, n_bits) ==
    IF BitLen(uint) > n_bits - 1
    THEN Signed(TRUE, NotMask(Dec(uint), n_bits))
    ELSE Signed(FALSE, uint)

\* (byte >> j) & 1
BitOf(byte, j) == IF j = 8 THEN 0
                  ELSE IF j = 7 THEN byte \div 128
                  ELSE IF j = 6 THEN (byte \div 64) % 2
                  ELSE IF j = 5 THEN (byte \div 32) % 2
                  ELSE IF j = 4 THEN (byte \div 16) % 2
                  ELSE IF j = 3 THEN (byte \div 8) % 2
                  ELSE IF j = 2 THEN (byte \div 4) % 2
                  ELSE IF j = 1 THEN (byte \div 2) % 2
                  ELSE byte % 2

\* the bits one byte appends: for j in range(8 if i==8 else 6, -1, -1)
VarintTopBit(i) == IF i = 8 THEN 8 ELSE 6

ByteBits(byte, i) ==
    LET top == VarintTopBit(i)
    IN  [k \in 1..(top + 1) |-> BitOf(byte, top + 1 - k)]

RECURSIVE VarintLoop(_, _, _, _)
VarintLoop(buf, start, i, bits) ==
    IF start + i >= Len(buf)
    THEN SqliteParseError("Ran off end of buffer while reading varint")
    ELSE LET byte == buf[start + i + 1]
             bits2 == bits \o ByteBits(byte, i)
         IN  IF byte < 128 \/ i = 8
             THEN [kind |-> "ok", bits |-> bits2, i |-> i]
             ELSE VarintLoop(buf, start, i + 1, bits2)

parse_varint(buf, start) ==
    LET r == VarintLoop(buf, start, 0, <<>>)
    IN  IF ~IsOk(r) THEN r
        ELSE [kind |-> "ok", value |-> twos_comp(BitsToInt(r.bits), 64),
              width |-> r.i + 1]

-----------------------------------------------------------------------------
(* Python sequence indexing and slicing *)

\* buf[k] raises IndexError outside -len(buf) .. len(buf) - 1
InRange(buf, k) == 0 - Len(buf) <= k /\ k < Len(buf)

At(buf, k) == IF k >= 0 THEN buf[k + 1] ELSE buf[Len(buf) + k + 1]

SliceBound(buf, x) ==
    IF x < 0
    THEN (IF x + Len(buf) < 0 THEN 0 ELSE x + Len(buf))
    ELSE (IF x > Len(buf) THEN Len(buf) ELSE x)

\* buf[a:b]
PySlice(buf, a, b) == SubSeq(buf, SliceBound(buf, a) + 1, SliceBound(buf, b))

-----------------------------------------------------------------------------
(* encode_twos_comp_bits, encode_varint *)

\* bin(i)[2:], most significant bit first
RECURSIVE Bin(_)
Bin(i) == IF i < 2 THEN <<i>> ELSE Bin(i \div 2) \o <<i % 2>>

encode_twos_comp_bits(i, n_bits) ==
    IF i < 0 THEN Raise("NotImplementedError", "")
    ELSE IF BitLen(FromInt(i)) > n_bits - 1
         THEN Raise("ValueError", "too large for n_bits-bit int")
         ELSE [kind |-> "ok", bits |-> Bin(i)]

encode_varint(i) ==
    LET i_bits == encode_twos_comp_bits(i, 64)
    IN  IF ~IsOk(i_bits) THEN i_bits
        ELSE IF Len(i_bits.bits) > 7 THEN Raise("NotImplementedError", "")
        ELSE [kind |-> "ok", value |-> <<ToInt(BitsToInt(<<0>> \o i_bits.bits))>>]

-----------------------------------------------------------------------------
(* parse_twos_comp_bytes, parse_column *)

\* i ** 256 for the indices enumerate() gives over a column of up to 8 bytes
Pow256 == [i \in 0..7 |-> PowB(FromInt(i), 256)]

\* num after the loop over enumerate(buf[::-1]), from index i on
RECURSIVE SumBytes(_, _)
SumBytes(buf, i) ==
    IF i >= Len(buf) THEN <<>>
    ELSE AddB(MulB(FromInt(buf[Len(buf) - i]), Pow256[i]), SumBytes(buf, i + 1))

\* twos_comp shifts by n_bits - 1, and Python refuses a negative shift count
parse_twos_comp_bytes(buf) ==
    LET n_bits == Len(buf) * 8
    IN  IF n_bits = 0 THEN Raise("ValueError", "negative shift count")
        ELSE [kind |-> "ok", value |-> twos_comp(SumBytes(buf, 0), n_bits)]

Zero == Signed(FALSE, <<>>)

NoneV == [t |-> "None", i |-> Zero, b |-> <<>>]

IntV(s) == [t |-> "int", i |-> s, b |-> <<>>]

\* a str: the bytes of a blob or a text column
StrV(b) == [t |-> "str", i |-> Zero, b |-> b]

\* struct.unpack('>d', ...): the float is kept as the 8 bytes it is read from
FloatV(b) == [t |-> "float", i |-> Zero, b |-> b]

Returns(value, width) == [kind |-> "ok", value |-> value, width |-> width]

\* len_check(l) passes
LenOk(l, buf, start) == ~(l > Len(buf) - start)

ColumnOverrun == SqliteParseError("Tried to read column value off end of buffer.")

IntColumn(l, buf, start) ==
    IF ~LenOk(l, buf, start) THEN ColumnOverrun
    ELSE LET v == parse_twos_comp_bytes(PySlice(buf, start, start + l))
         IN  IF ~IsOk(v) THEN v ELSE Returns(IntV(v.value), l)

FloatColumn(buf, start) ==
    IF ~LenOk(8, buf, start) THEN ColumnOverrun
    ELSE LET b == PySlice(buf, start, start + 8)
         IN  IF Len(b) # 8 THEN Raise("struct.error", "unpack requires a string argument of length 8")
             ELSE Returns(FloatV(b), 8)

\* l = (serial_type - 13) / 2 of the N >= 12 and even branch
BlobLen(serial_type) == (serial_type - 13) \div 2

\* l = (serial_type - 13) / 2 of the N >= 13 and odd branch
TextLen(serial_type) == (serial_type - 13) \div 2

StrColumn(l, buf, start) ==
    IF ~LenOk(l, buf, start) THEN ColumnOverrun
    ELSE Returns(StrV(PySlice(buf, start, start + l)), l)

parse_column(serial_type, buf, start) ==
    IF serial_type = 0 THEN Returns(NoneV, 0)
    ELSE IF serial_type = 1 THEN IntColumn(1, buf, start)
    ELSE IF serial_type = 2 THEN IntColumn(2, buf, start)
    ELSE IF serial_type = 3 THEN IntColumn(3, buf, start)
    ELSE IF serial_type = 4 THEN IntColumn(4, buf, start)
    ELSE IF serial_type = 5 THEN IntColumn(6, buf, start)
    ELSE IF serial_type = 6 THEN IntColumn(8, buf, start)
    ELSE IF serial_type = 7 THEN FloatColumn(buf, start)
    ELSE IF serial_type = 8 THEN Returns(IntV(FromIntS(0)), 0)
    ELSE IF serial_type = 9 THEN Returns(IntV(FromIntS(1)), 0)
    ELSE IF serial_type \in {10, 11}
         THEN SqliteParseError("Reserved serial_type used")
    ELSE IF serial_type % 2 = 0 THEN StrColumn(BlobLen(serial_type), buf, start)
    ELSE StrColumn(TextLen(serial_type), buf, start)

-----------------------------------------------------------------------------
(* count_varints *)

\* for j in range(8): the position and the j the loop ends with
RECURSIVE ScanBack(_, _, _)
ScanBack(buf, pos, j) ==
    IF ~InRange(buf, pos - 1) THEN Raise("IndexError", "string index out of range")
    ELSE IF At(buf, pos - 1) < 128 THEN [kind |-> "ok", pos |-> pos, j |-> j]
    ELSE IF j = 7 THEN [kind |-> "ok", pos |-> pos - 1, j |-> j]
    ELSE ScanBack(buf, pos - 1, j + 1)

\* if nine_byte and j+1 != 9
NotNineBytes(nine_byte, j) == nine_byte /\ j + 1 # 9

\* one pass of the body of for i in range(n), entered with pos
CountStep(buf, pos0) ==
    LET pos == pos0 - 1
    IN  IF ~InRange(buf, pos) THEN Raise("IndexError", "string index out of range")
        ELSE LET nine_byte == At(buf, pos) >= 128
                 s == ScanBack(buf, pos, 0)
             IN  IF ~IsOk(s) THEN s
                 ELSE IF NotNineBytes(nine_byte, s.j)
                      THEN SqliteParseError("Varint ended with 0x80 bit set but was not 9 bytes.")
                      ELSE [kind |-> "ok", pos |-> s.pos]

RECURSIVE CountLoop(_, _, _)
CountLoop(buf, pos, left) ==
    IF left = 0 THEN [kind |-> "ok", pos |-> pos]
    ELSE LET s == CountStep(buf, pos)
         IN  IF ~IsOk(s) THEN s ELSE CountLoop(buf, s.pos, left - 1)

count_varints(buf, start, n, backward) ==
    IF ~(n > 0) THEN Raise("AssertionError", "")
    ELSE IF ~backward THEN Raise("NotImplementedError", "")
    ELSE CountLoop(buf, start, n)

-----------------------------------------------------------------------------
(* parse_record *)

\* if ord(buf[i]) == 0x0d: raise
MarkerRejected(byte) == byte = 13

\* while i < header_start + header_len: one varint per column
RECURSIVE ReadSerialTypes(_, _, _, _)
ReadSerialTypes(buf, i, header_end, serial_types) ==
    IF ~(i < header_end) THEN [kind |-> "ok", i |-> i, serial_types |-> serial_types]
    ELSE LET t == parse_varint(buf, i)
         IN  IF ~IsOk(t) THEN t
             ELSE ReadSerialTypes(buf, i + t.width, header_end,
                                  Append(serial_types, ToIntS(t.value)))

\* a variant of the check below that catches only a header read short of its
\* declared length (`<` written for `!=`)
HeaderLengthMismatch_Short(i, header_start, header_len) ==
    i < header_start + header_len

\* if i != header_start + header_len: raise
HeaderLengthMismatch(i, header_start, header_len) == i # header_start + header_len

\* a variant of the check below that catches only too few columns (`<`
\* written for `!=`)
ColumnCountMismatch_TooFew(n_cols, serial_types) ==
    ~IsNone(n_cols) /\ Len(serial_types) < Get(n_cols)

\* if n_cols is not None and len(serial_types) != n_cols: raise
ColumnCountMismatch(n_cols, serial_types) ==
    ~IsNone(n_cols) /\ Len(serial_types) # Get(n_cols)

\* neither `continue` is taken for the column; type_set is not None
TypeRejected(serial_type, type_set) ==
    /\ ~(type_set.string /\ serial_type >= 13 /\ serial_type % 2 = 0)
    /\ ~(type_set.blob /\ serial_type >= 12 /\ serial_type % 2 = 1)
    /\ serial_type \notin type_set.types

\* the columns at which the loop over enumerate(zip(serial_types, type_sets))
\* would raise, 1-based
RejectedColumns(serial_types, type_sets) ==
    {n \in 1..Len(serial_types) :
        /\ n <= Len(type_sets)
        /\ ~IsNone(type_sets[n])
        /\ TypeRejected(serial_types[n], Get(type_sets[n]))}

\* the raise of the type_sets check: the name expected_type in its message is
\* not defined, so what is raised is NameError. n and serial_type are the
\* loop's locals at the raise, the first rejected column (n is 0-based).
TypeSetsRaise(serial_types, type_sets) ==
    LET first == CHOOSE n \in RejectedColumns(serial_types, type_sets) :
                    \A x \in RejectedColumns(serial_types, type_sets) : n <= x
    IN  [kind |-> "NameError", msg |-> "global name 'expected_type' is not defined",
         n |-> first - 1, serial_type |-> serial_types[first]]

\* for stype in serial_types: value, l = parse_column(stype, buf, i)
RECURSIVE ParseColumns(_, _, _, _, _)
ParseColumns(buf, i, serial_types, k, values) ==
    IF k > Len(serial_types) THEN [kind |-> "ok", i |-> i, values |-> values]
    ELSE LET c == parse_column(serial_types[k], buf, i)
         IN  IF ~IsOk(c) THEN c
             ELSE ParseColumns(buf, i + c.width, serial_types, k + 1,
                               Append(values, c.value))

\* if actual_payload_len != payload_len: raise
PayloadLengthMismatch(actual_payload_len, payload_len) ==
    actual_payload_len # payload_len

\* the raise of the payload length check; its message is formatted with
\* payload_len and actual_payload_len
PayloadLengthRaise(payload_len, actual_payload_len) ==
    [kind |-> "SqliteParseError",
     msg |-> "Payload length field does not match actual length of payload.",
     payload_len |-> payload_len, actual_payload_len |-> actual_payload_len]

\* parse_record from the header length check on. The record it returns carries,
\* beside serial_types and values, the locals the length checks compared:
\* header_end is i after the serial types and i is the final offset.
ParseHeader(buf, header_start, payload_len, header_len, i0, n_cols, type_sets) ==
    IF header_len < 2 THEN SqliteParseError("Header length too small")
    ELSE IF ~IsNone(n_cols) /\ header_len > 9 * (1 + Get(n_cols))
         THEN SqliteParseError("Header length is too long for cols")
    ELSE IF ~IsNone(n_cols) /\ header_len < 1 * (1 + Get(n_cols))
         THEN SqliteParseError("Header length too short for cols")
    ELSE LET t == ReadSerialTypes(buf, i0, header_start + header_len, <<>>)
         IN  IF ~IsOk(t) THEN t
             ELSE IF HeaderLengthMismatch(t.i, header_start, header_len)
                  THEN SqliteParseError("Record header was not the correct length.")
             ELSE IF ColumnCountMismatch(n_cols, t.serial_types)
                  THEN SqliteParseError("Expected n_cols columns")
             ELSE IF /\ ~IsNone(type_sets)
                     /\ RejectedColumns(t.serial_types, Get(type_sets)) # {}
                  THEN TypeSetsRaise(t.serial_types, Get(type_sets))
             ELSE LET c == ParseColumns(buf, t.i, t.serial_types, 1, <<>>)
                  IN  IF ~IsOk(c) THEN c
                      ELSE IF PayloadLengthMismatch(c.i - header_start, payload_len)
                           THEN PayloadLengthRaise(payload_len, c.i - header_start)
                           ELSE [kind |-> "ok",
                                 serial_types |-> t.serial_types,
                                 values |-> c.values,
                                 header_start |-> header_start,
                                 header_len |-> header_len,
                                 payload_len |-> payload_len,
                                 header_end |-> t.i,
                                 i |-> c.i]

\* start >= 0 in every call drawn
parse_record(buf, start, n_cols, type_sets) ==
    IF ~InRange(buf, start) THEN Raise("IndexError", "string index out of range")
    ELSE IF MarkerRejected(At(buf, start))
         THEN SqliteParseError("B-Tree Leaf Cell header 0x0d not present")
    ELSE LET p == parse_varint(buf, start + 1)
         IN  IF ~IsOk(p) THEN p
             ELSE LET r == parse_varint(buf, start + 1 + p.width)
                  IN  IF ~IsOk(r) THEN r
                      ELSE LET header_start == start + 1 + p.width + r.width
                               h == parse_varint(buf, header_start)
                           IN  IF ~IsOk(h) THEN h
                               ELSE ParseHeader(buf, header_start, ToIntS(p.value),
                                                ToIntS(h.value), header_start + h.width,
                                                n_cols, type_sets)

-----------------------------------------------------------------------------
(* The calls drawn: every function is pure, so a behaviour is one call *)

NoResult == [kind |-> "none"]

MaxVarintBuf == 10
MaxEncode == 200
MaxSerialType == 17
MaxShortBuf == 2
MaxColBuf == 8
MaxRunLen == 2
MaxCount == 2
MaxJunk == 4
MaxLenField == 4
MaxCols == 2

Seqs(S, lo, hi) == UNION {[1..n -> S] : n \in lo..hi}

Call(fn, buf, start, n_cols, type_sets, serial_type, n, backward, v) ==
    [fn |-> fn, buf |-> buf, start |-> start, n_cols |-> n_cols,
     type_sets |-> type_sets, serial_type |-> serial_type, n |-> n,
     backward |-> backward, v |-> v]

\* a terminating byte, a continuation byte with no data bits, one with all
VarintBytes == {1, 128, 255}

InitVarint ==
    /\ \E buf \in Seqs(VarintBytes, 0, MaxVarintBuf), start \in 0..1 :
           call = Call("parse_varint", buf, start, None, None, 0, 0, FALSE, 0)
    /\ result = NoResult
    /\ pc = "ready"

InitEncode ==
    /\ \E v \in (0 - MaxEncode)..MaxEncode :
           call = Call("encode_varint", <<>>, 0, None, None, 0, 0, FALSE, v)
    /\ result = NoResult
    /\ pc = "ready"

ColumnBufs == Seqs({0, 1, 42, 255}, 0, MaxShortBuf)
                \cup Seqs({1, 255}, MaxShortBuf + 1, MaxColBuf)

InitColumn ==
    /\ \E buf \in ColumnBufs, start \in 0..1, serial_type \in 0..MaxSerialType :
           call = Call("parse_column", buf, start, None, None, serial_type, 0, FALSE, 0)
    /\ result = NoResult
    /\ pc = "ready"

\* well-formed varints of 1, 2, 3 and 9 bytes; the last byte of a 9-byte
\* varint carries 8 data bits, so it may have bit 0x80 set
Nine(first, last) == <<first, 128, 128, 128, 128, 128, 128, 128, last>>

Varints == {<<1>>, <<129, 1>>, <<128, 129, 1>>,
            Nine(129, 1), Nine(129, 128), Nine(255, 255)}

\* concatenations of 1..MaxRunLen varints
RECURSIVE Runs(_)
Runs(k) == IF k = 0 THEN {<<>>}
           ELSE {v \o r : v \in Varints, r \in Runs(k - 1)}

VarintRuns == UNION {Runs(k) : k \in 1..MaxRunLen}

\* a run of varints after one leading byte, and short arbitrary buffers
CountBufs == {<<lead>> \o r : lead \in {1, 129}, r \in VarintRuns}
               \cup Seqs({1, 129}, 0, MaxJunk)

\* start runs from 0 to one past the end of the longest buffer
InitCount ==
    /\ \E buf \in CountBufs, start \in 0..(MaxRunLen * 9 + 1),
          n \in 0..MaxCount, backward \in BOOLEAN :
           call = Call("count_varints", buf, start, None, None, 0, n, backward, 0)
    /\ result = NoResult
    /\ pc = "ready"

TS(types, string, blob) == [types |-> types, string |-> string, blob |-> blob]

TypeSetsOptions ==
    {None,
     Some(<<Some(TS({}, TRUE, FALSE))>>),
     Some(<<Some(TS({}, FALSE, TRUE))>>),
     Some(<<Some(TS({1}, FALSE, FALSE))>>),
     Some(<<None, Some(TS({15}, FALSE, TRUE))>>)}

NColsOptions == {None} \cup {Some(k) : k \in 0..MaxCols}

\* serial types: 8-bit int, blob, 1-byte text, and the first byte of a 2-byte
\* varint (128, 1 is serial type 1 in two bytes)
TypeBytes == {1, 12, 15, 128}

\* no data or one byte of data after the header
DataOptions == {<<>>, <<42>>}

\* the cell header byte (or not), payload length, header length, serial
\* types and data; the row id is <<0>> or the 2-byte varint <<129, 5>>
RecordBody(m, payload_len, row_id, header_len, types, data) ==
    <<m, payload_len>> \o row_id \o <<header_len>> \o types \o data

RecordBufs(row_id) ==
    {RecordBody(m, payload_len, row_id, header_len, types, data) :
        m \in {0, 13}, payload_len \in 1..MaxLenField, header_len \in 1..MaxLenField,
        types \in Seqs(TypeBytes, 0, MaxCols), data \in DataOptions}

\* start at the cell header; start past a byte before it, with a 2-byte row
\* id; and start at the end of the buffer
InitRecord ==
    /\ \/ \E buf \in RecordBufs(<<0>>), n_cols \in NColsOptions,
             type_sets \in TypeSetsOptions :
              call = Call("parse_record", buf, 0, n_cols, type_sets, 0, 0, FALSE, 0)
       \/ \E buf \in RecordBufs(<<129, 5>>), n_cols \in NColsOptions,
             type_sets \in TypeSetsOptions :
              call = Call("parse_record", <<13>> \o buf, 1, n_cols, type_sets,
                          0, 0, FALSE, 0)
       \/ \E buf \in RecordBufs(<<0>>) \cup {<<>>} :
              call = Call("parse_record", buf, Len(buf), None, None, 0, 0, FALSE, 0)
    /\ result = NoResult
    /\ pc = "ready"

DoParseVarint ==
    /\ pc = "ready"
    /\ call.fn = "parse_varint"
    /\ result' = parse_varint(call.buf, call.start)
    /\ pc' = "done"
    /\ UNCHANGED call

DoEncodeVarint ==
    /\ pc = "ready"
    /\ call.fn = "encode_varint"
    /\ result' = encode_varint(call.v)
    /\ pc' = "done"
    /\ UNCHANGED call

DoParseColumn ==
    /\ pc = "ready"
    /\ call.fn = "parse_column"
    /\ result' = parse_column(call.serial_type, call.buf, call.start)
    /\ pc' = "done"
    /\ UNCHANGED call

DoCountVarints ==
    /\ pc = "ready"
    /\ call.fn = "count_varints"
    /\ result' = count_varints(call.buf, call.start, call.n, call.backward)
    /\ pc' = "done"
    /\ UNCHANGED call

DoParseRecord ==
    /\ pc = "ready"
    /\ call.fn = "parse_record"
    /\ result' = parse_record(call.buf, call.start, call.n_cols, call.type_sets)
    /\ pc' = "done"
    /\ UNCHANGED call

-----------------------------------------------------------------------------
(* What the claims say, stated apart from the code *)

Done(fn) == pc = "done" /\ call.fn = fn

Failed(r, msg) == r.kind = "SqliteParseError" /\ r.msg = msg

\* the width the varint at offset i should have: the 1-based index of the
\* first of 8 bytes with bit 0x80 clear, 9 after 8 continuation bytes, and 0
\* when the buffer ends first
ClaimedWidth(buf, i) ==
    LET avail == Len(buf) - i
        clear == {w \in 1..8 : w <= avail /\ buf[i + w] < 128
                                /\ \A x \in 1..(w - 1) : buf[i + x] >= 128}
    IN  IF clear # {} THEN CHOOSE w \in clear : TRUE
        ELSE IF avail >= 9 /\ \A x \in 1..8 : buf[i + x] >= 128 THEN 9
        ELSE 0

Low7(byte) == [k \in 1..7 |-> BitOf(byte, 7 - k)]

All8(byte) == [k \in 1..8 |-> BitOf(byte, 8 - k)]

RECURSIVE ClaimedBits(_, _, _, _)
ClaimedBits(buf, i, w, k) ==
    IF k > w THEN <<>>
    ELSE (IF k = 9 THEN All8(buf[i + k]) ELSE Low7(buf[i + k]))
           \o ClaimedBits(buf, i, w, k + 1)

\* the n_bits-bit two's-complement reading of u < 2^n_bits
TwosComplement(u, n_bits) ==
    IF BitLen(u) = n_bits
    THEN Signed(TRUE, AddB(NotMask(u, n_bits), <<1>>))
    ELSE Signed(FALSE, u)

ClaimedVarint(buf, i) ==
    TwosComplement(BitsToInt(ClaimedBits(buf, i, ClaimedWidth(buf, i), 1)), 64)

\* the serial-type table of the column decoder
TableWidth(serial_type) ==
    IF serial_type \in {0, 8, 9} THEN 0
    ELSE IF serial_type \in 1..4 THEN serial_type
    ELSE IF serial_type = 5 THEN 6
    ELSE IF serial_type \in {6, 7} THEN 8
    ELSE IF serial_type % 2 = 0 THEN (serial_type - 12) \div 2
    ELSE (serial_type - 13) \div 2

\* the kind of value a serial type decodes to
ClaimedTag(serial_type) ==
    IF serial_type = 0 THEN "None"
    ELSE IF serial_type \in (1..6) \cup {8, 9} THEN "int"
    ELSE IF serial_type = 7 THEN "float"
    ELSE "str"

\* the big-endian integer of a byte span, as limbs
BigEndian(span) == Norm([k \in 1..Len(span) |-> span[Len(span) + 1 - k]])

\* a column passes its constraint set
ClaimedAccept(serial_type, type_set) ==
    \/ serial_type \in type_set.types
    \/ type_set.string /\ serial_type >= 13 /\ serial_type % 2 = 1
    \/ type_set.blob /\ serial_type >= 12 /\ serial_type % 2 = 0

\* where reading whole varints from i stops, at or past end; -1 when the
\* buffer ends first
RECURSIVE WalkVarints(_, _, _)
WalkVarints(buf, i, end) ==
    IF i >= end THEN i
    ELSE IF ClaimedWidth(buf, i) = 0 THEN -1
    ELSE WalkVarints(buf, i + ClaimedWidth(buf, i), end)

\* the layout of the cell at start: marker, payload length, row id, then the
\* header, which opens with its own length
HeaderOf(buf, start) ==
    LET p == start + 1
        r == p + ClaimedWidth(buf, p)
        h == r + ClaimedWidth(buf, r)
    IN  [whole |-> /\ ClaimedWidth(buf, p) # 0
                   /\ ClaimedWidth(buf, r) # 0
                   /\ ClaimedWidth(buf, h) # 0,
         header_start |-> h,
         types_start |-> h + ClaimedWidth(buf, h),
         header_end |-> h + ToIntS(ClaimedVarint(buf, h))]

\* a serial-type varint runs past the end the header declares
Overshoots(buf, start) ==
    /\ HeaderOf(buf, start).whole
    /\ WalkVarints(buf, HeaderOf(buf, start).types_start,
                   HeaderOf(buf, start).header_end) > HeaderOf(buf, start).header_end

\* the call ended at a check that comes before the serial types are read
EndedBeforeSerialTypes(r) ==
    \/ r.kind = "IndexError"
    \/ Failed(r, "B-Tree Leaf Cell header 0x0d not present")
    \/ Failed(r, "Header length too small")
    \/ Failed(r, "Header length is too long for cols")
    \/ Failed(r, "Header length too short for cols")

\* the offsets at which the varints of a run start, reading forward from i;
\* -1 marks a run the buffer cuts short
RECURSIVE RunStarts(_, _)
RunStarts(buf, i) ==
    IF i >= Len(buf) THEN <<>>
    ELSE IF ClaimedWidth(buf, i) = 0 THEN <<-1>>
    ELSE <<i>> \o RunStarts(buf, i + ClaimedWidth(buf, i))

\* buf is one byte without the continuation bit, then a run of whole varints
IsRun(buf) ==
    /\ Len(buf) >= 2
    /\ buf[1] < 128
    /\ \A k \in 1..Len(RunStarts(buf, 1)) : RunStarts(buf, 1)[k] # -1

-----------------------------------------------------------------------------
(* The claims *)

\* C1: parse_record goes past its first gate only when buf[start] is the
\* leaf-cell marker 0x0d: any other byte there fails with the missing-marker
\* error, and the marker itself is not rejected by that check.
C1_MarkerGate ==
    (Done("parse_record") /\ call.start < Len(call.buf)) =>
        (At(call.buf, call.start) # 13
            <=> Failed(result, "B-Tree Leaf Cell header 0x0d not present"))

\* C2: parse_varint fails when the buffer ends before a terminating byte, and
\* otherwise returns the width 1..9 given by the first byte with bit 0x80
\* clear (9 after eight continuation bytes) and the 64-bit two's-complement
\* value of the 7-bit groups followed by the 8 bits of a 9th byte.
C2_VarintDecode ==
    Done("parse_varint") =>
        IF ClaimedWidth(call.buf, call.start) = 0
        THEN Failed(result, "Ran off end of buffer while reading varint")
        ELSE /\ IsOk(result)
             /\ result.width = ClaimedWidth(call.buf, call.start)
             /\ result.width \in 1..9
             /\ result.value = ClaimedVarint(call.buf, call.start)

\* C3: encode_varint and parse_varint are inverses: encode_varint(v) returns
\* a byte string b for every signed v, and parse_varint(b, 0) is (v, len(b)).
C3_RoundTrip ==
    Done("encode_varint") =>
        /\ IsOk(result)
        /\ parse_varint(result.value, 0)
             = [kind |-> "ok", value |-> FromIntS(call.v), width |-> Len(result.value)]

\* C4: for a serial type other than 10 and 11 with enough bytes left,
\* parse_column returns the width of the serial-type table, never negative,
\* and a blob or text value is exactly that many bytes from the position.
C4_ColumnWidth ==
    (/\ Done("parse_column")
     /\ call.serial_type \notin {10, 11}
     /\ call.start <= Len(call.buf)
     /\ TableWidth(call.serial_type) <= Len(call.buf) - call.start) =>
        /\ IsOk(result)
        /\ result.width = TableWidth(call.serial_type)
        /\ result.width >= 0
        /\ call.serial_type >= 12 =>
              result.value.b = SubSeq(call.buf, call.start + 1,
                                      call.start + TableWidth(call.serial_type))

\* C5: for serial types 1 to 6 the value parse_column returns is the
\* big-endian two's-complement integer of the column's bytes, 8 bits a byte.
C5_ColumnInteger ==
    (Done("parse_column") /\ call.serial_type \in 1..6 /\ IsOk(result)) =>
        LET span == SubSeq(call.buf, call.start + 1, call.start + result.width)
        IN  /\ result.value.t = "int"
            /\ result.value.i = TwosComplement(BigEndian(span), 8 * Len(span))

\* C6: with type_sets given, a record is returned only when every checked
\* column's serial type is in its set, or is text (odd, >= 13) and the set has
\* "string", or is a blob (even, >= 12) and the set has "blob"; and the
\* type-constraint failure is raised only when some checked column is not.
C6_TypeSets ==
    (Done("parse_record") /\ ~IsNone(call.type_sets)) =>
        LET type_sets == Get(call.type_sets)
            Checked(n) == n <= Len(type_sets) /\ ~IsNone(type_sets[n])
        IN  /\ IsOk(result) =>
                \A n \in 1..Len(result.serial_types) :
                    Checked(n) => ClaimedAccept(result.serial_types[n], Get(type_sets[n]))
            /\ result.kind = "NameError" =>
                ~ClaimedAccept(result.serial_type, Get(type_sets[result.n + 1]))

\* C7: every call of parse_record either returns a record or raises
\* SqliteParseError, and no other fault.
C7_OnlyParseError ==
    Done("parse_record") => result.kind \in {"ok", "SqliteParseError"}

C9_ColumnCount ==
    (Done("parse_record") /\ IsOk(result)) =>
        /\ Len(result.values) = Len(result.serial_types)
        /\ \A k \in 1..Len(result.values) :
              result.values[k].t = ClaimedTag(result.serial_types[k])
        /\ ~IsNone(call.n_cols) =>
              /\ Len(result.serial_types) = Get(call.n_cols)
              /\ result.header_len >= 2
              /\ result.header_len >= 1 + Get(call.n_cols)
              /\ result.header_len <= 9 * (1 + Get(call.n_cols))

\* a record of two columns was returned to a call that gave n_cols
C9_Witness ==
    /\ Done("parse_record")
    /\ IsOk(result)
    /\ call.n_cols = Some(2)
    /\ Len(result.serial_types) = 2

\* C10: when start is one past a run of at least n whole varints that follows
\* a byte without the continuation bit, count_varints(buf, start, n, True)
\* returns the offset of the first byte of the n-th varint before start.
C10_BackwardCount ==
    (/\ Done("count_varints")
     /\ call.backward
     /\ call.n >= 1
     /\ IsRun(call.buf)
     /\ call.start = Len(call.buf)
     /\ call.n <= Len(RunStarts(call.buf, 1))) =>
        /\ IsOk(result)
        /\ result.pos = RunStarts(call.buf, 1)[Len(RunStarts(call.buf, 1)) + 1 - call.n]

-----------------------------------------------------------------------------
SpecVarint == InitVarint /\ [][DoParseVarint]_vars

SpecEncode == InitEncode /\ [][DoEncodeVarint]_vars

SpecColumn == InitColumn /\ [][DoParseColumn]_vars

SpecCount == InitCount /\ [][DoCountVarints]_vars

SpecRecord == InitRecord /\ [][DoParseRecord]_vars

Init == InitVarint \/ InitEncode \/ InitColumn \/ InitCount \/ InitRecord

Next == \/ DoParseVarint
        \/ DoEncodeVarint
        \/ DoParseColumn
        \/ DoCountVarints
        \/ DoParseRecord

Spec == Init /\ [][Next]_vars

=============================================================================
